---------------------------- MODULE Spec2Model ----------------------------
(***************************************************************************)
(* Model of fboss/py/fboss/cli/commands/port.py: the port commands of the  *)
(* FBOSS command line (details, flap, set-status, stats, status and the    *)
(* detailed status report).  Each command is a sequential program; the     *)
(* switch agent and the transceiver (qsfp) service are its environment:    *)
(* what a remote call returns, and whether it raises, is chosen            *)
(* nondeterministically at the call.                                       *)
(***************************************************************************)
EXTENDS Integers, Sequences, FiniteSets, TLC

(* ------------------------------ bounds -------------------------------- *)

\* Port ids are 0..MaxPort.
MaxPort == 2

\* The longest list of ports given on the command line.
MaxRequested == 2

Ports == 0..MaxPort

\* Python's None.
None == "None"

(* ------------------------------ state --------------------------------- *)

VARIABLES
    cmd,          \* the command being run
    pc,           \* position in the command's code
    outcome,      \* "running", "ok", or the exception that ended the process
    out,          \* the lines printed so far
    calls,        \* the remote calls issued so far, in order
    raised,       \* TRUE once a remote call has raised FbossBaseError
    admin,        \* the agent's administrative state of every port
    admin0,       \* the agent's administrative state when the command began
    ports,        \* the ports given on the command line (a list)
    status,       \* set-status: the requested state (True = enable)
    resp,         \* flap: the getPortStatus response, port -> status
    order,        \* flap: the iteration order of resp.items()
    idx,          \* the index of the current loop
    mode,         \* status: the branch of PortStatusCmd.run that is taken
    status_resp,  \* detail: self._status_resp, port -> status
    port_speeds,  \* detail: self._port_speeds, port -> speedMbps
    t_to_p,       \* detail: self._t_to_p, transceiver id -> {channel -> port}
    transceiver,  \* detail: self._transceiver, the transceiver ids observed
    channels,     \* detail: the local channels of _get_channel_detail
    qsfp_resp,    \* detail: what getTransceiverInfo returned
    info_resp,    \* detail: self._info_resp, after _get_dummy_status
    printed,      \* detail: transceiver_printed of _print_port_detail
    rendered,     \* detail: the transceivers rendered so far, in order
    bps,          \* _convert_bps: the argument
    converted     \* _convert_bps: what the call returned or raised

flapVars == <<admin, admin0, ports, status, resp, order>>

detailVars == <<mode, status_resp, port_speeds, t_to_p, transceiver,
                channels, qsfp_resp, info_resp, printed, rendered>>

bpsVars == <<bps, converted>>

vars == <<cmd, pc, outcome, out, calls, raised, idx, flapVars, detailVars,
          bpsVars>>

(* ------------------------------ helpers ------------------------------- *)

\* A bit rate of m * 1000^e bits per second: port speeds in bps pass 2^31,
\* so the integer is kept as a mantissa and a power of 1000.
Bps(m, e) == [m |-> m, e |-> e]

NoBps == Bps(0, 0)

\* What _convert_bps gives: bps_per_unit = bps / 10^exp10 (the float quotient,
\* kept exact as the divisor's exponent) with the suffix, or the failed
\* assertion of line 65.
Converted(failed, exp10, suffix) ==
    [failed |-> failed, exp10 |-> exp10, suffix |-> suffix]

NotConverted == Converted(FALSE, 0, None)

Range(s) == {s[i] : i \in DOMAIN s}

\* Lists of length at most n over S.
SeqsUpTo(S, n) == UNION {[1..k -> S] : k \in 0..n}

\* Every order in which the keys S of a dict can be iterated.
Orders(S) ==
    {s \in [1..Cardinality(S) -> S] : \A i, j \in DOMAIN s : i # j => s[i] # s[j]}

\* The port lists a command line can carry.
PortLists == SeqsUpTo(Ports, MaxRequested)

\* A PortStatus of the agent for a port whose administrative state is en: a
\* port that is administratively disabled has no link.
PortStatuses(en) ==
    {[enabled |-> en, up |-> u] : u \in IF en THEN BOOLEAN ELSE {FALSE}}

\* What getPortStatus(ports) can return: the status of each requested port,
\* its enabled flag being the agent's administrative state of the port.
StatusResponses(requested) ==
    {r \in [requested -> UNION {PortStatuses(e) : e \in BOOLEAN}] :
        \A p \in requested : r[p].enabled = admin[p]}

\* The outcome of getTransceiverInfo: the exception it raised, if any, and the
\* dict it returned.
QsfpResult(exc, info) == [exc |-> exc, info |-> info]

NotFetched == QsfpResult("not called", <<>>)

\* except FbossBaseError as e: raise SystemExit('Fboss Error: ' + e)
\* The operand e is the exception object, not a string: str + exception
\* raises TypeError before SystemExit is constructed.
FbossErrorHandler == "TypeError"

\* A remote call record.
SetPortState(port, state, ok) ==
    [op |-> "setPortState", port |-> port, state |-> state, ok |-> ok]

Sleep == [op |-> "sleep", port |-> None, state |-> None, ok |-> TRUE]

\* The effect of setPortState(port, state) on the agent.
AgentSetPortState(a, port, state) == [a EXCEPT ![port] = state]

(* ------------------------------- flap --------------------------------- *)

\* PortFlapCmd.run: the command line of a flap.
FlapInit ==
    /\ cmd = "flap"
    /\ pc = "run"
    /\ outcome = "running"
    /\ out = <<>>
    /\ calls = <<>>
    /\ raised = FALSE
    /\ admin \in [Ports -> BOOLEAN]
    /\ admin0 = admin
    /\ ports \in PortLists
    /\ status = None
    /\ resp = <<>>
    /\ order = <<>>
    /\ idx = 0
    /\ mode = None
    /\ status_resp = <<>>
    /\ port_speeds = <<>>
    /\ t_to_p = <<>>
    /\ transceiver = <<>>
    /\ channels = <<>>
    /\ qsfp_resp = NotFetched
    /\ info_resp = <<>>
    /\ printed = <<>>
    /\ rendered = <<>>
    /\ bps = NoBps
    /\ converted = NotConverted

\* run(): "if not ports" prints and ends, else flap_ports(ports) begins.
FlapRun ==
    /\ cmd = "flap" /\ pc = "run"
    /\ IF ports = <<>>
       THEN /\ out' = Append(out, [kind |-> "how did we get here", port |-> None])
            /\ pc' = "done"
            /\ outcome' = "ok"
       ELSE /\ pc' = "getPortStatus"
            /\ UNCHANGED <<out, outcome>>
    /\ UNCHANGED <<bpsVars, cmd, calls, raised, admin, admin0, ports, status, resp,
                   order, idx,
                   detailVars>>

\* resp = self._client.getPortStatus(ports); the call may raise.
FlapGetPortStatus ==
    /\ cmd = "flap" /\ pc = "getPortStatus"
    /\ \/ /\ resp' \in StatusResponses(Range(ports))
          /\ order' \in Orders(Range(ports))
          /\ idx' = 1
          /\ pc' = "disable"
          /\ UNCHANGED <<outcome, raised>>
       \/ /\ raised' = TRUE
          /\ outcome' = FbossErrorHandler
          /\ pc' = "done"
          /\ UNCHANGED <<resp, order, idx>>
    /\ UNCHANGED <<bpsVars, cmd, out, calls, admin, admin0, ports, status,
                   detailVars>>

\* A flap that tests nothing before it disables a port.
FlapSkipsNothing(st) == FALSE

\* if not status.enabled: ... continue
FlapSkips(st) == ~st.enabled

\* A flap that disables, pauses and re-enables one port at a time.
FlapDisableThenEnable ==
    /\ cmd = "flap" /\ pc = "disable"
    /\ IF idx > Len(order)
       THEN /\ pc' = "done"
            /\ outcome' = "ok"
            /\ UNCHANGED <<out, calls, admin, idx>>
       ELSE LET port == order[idx] IN
            IF FlapSkips(resp[port])
            THEN /\ out' = Append(out, [kind |-> "cannot flap", port |-> port])
                 /\ idx' = idx + 1
                 /\ UNCHANGED <<pc, calls, admin, outcome>>
            ELSE /\ out' = out \o <<[kind |-> "Disabling", port |-> port],
                                    [kind |-> "Enabling", port |-> port]>>
                 /\ calls' = calls \o <<SetPortState(port, FALSE, TRUE), Sleep,
                                        SetPortState(port, TRUE, TRUE)>>
                 /\ admin' = AgentSetPortState(admin, port, TRUE)
                 /\ idx' = idx + 1
                 /\ UNCHANGED <<pc, outcome>>
    /\ UNCHANGED <<bpsVars, cmd, raised, admin0, ports, status, resp, order,
                   detailVars>>

\* One iteration of the first loop of flap_ports, and the loop's exit.
FlapDisable ==
    /\ cmd = "flap" /\ pc = "disable"
    /\ IF idx > Len(order)
       THEN /\ pc' = "sleep"
            /\ UNCHANGED <<out, calls, raised, admin, outcome, idx>>
       ELSE LET port == order[idx] IN
            IF FlapSkips(resp[port])
            THEN /\ out' = Append(out, [kind |-> "cannot flap", port |-> port])
                 /\ idx' = idx + 1
                 /\ UNCHANGED <<pc, calls, raised, admin, outcome>>
            ELSE /\ out' = Append(out, [kind |-> "Disabling", port |-> port])
                 /\ \/ /\ calls' = Append(calls, SetPortState(port, FALSE, TRUE))
                       /\ admin' = AgentSetPortState(admin, port, FALSE)
                       /\ idx' = idx + 1
                       /\ UNCHANGED <<pc, raised, outcome>>
                    \/ /\ calls' = Append(calls, SetPortState(port, FALSE, FALSE))
                       /\ raised' = TRUE
                       /\ outcome' = FbossErrorHandler
                       /\ pc' = "done"
                       /\ UNCHANGED <<admin, idx>>
    /\ UNCHANGED <<bpsVars, cmd, admin0, ports, status, resp, order,
                   detailVars>>

\* time.sleep(1), then the second loop starts over resp.items().
FlapSleep ==
    /\ cmd = "flap" /\ pc = "sleep"
    /\ calls' = Append(calls, Sleep)
    /\ idx' = 1
    /\ pc' = "enable"
    /\ UNCHANGED <<bpsVars, cmd, outcome, out, raised, admin, admin0, ports, status,
                   resp, order,
                   detailVars>>

\* One iteration of the second loop of flap_ports, and the loop's exit.
FlapEnable ==
    /\ cmd = "flap" /\ pc = "enable"
    /\ IF idx > Len(order)
       THEN /\ pc' = "done"
            /\ outcome' = "ok"
            /\ UNCHANGED <<out, calls, raised, admin, idx>>
       ELSE LET port == order[idx] IN
            IF resp[port].enabled
            THEN /\ out' = Append(out, [kind |-> "Enabling", port |-> port])
                 /\ \/ /\ calls' = Append(calls, SetPortState(port, TRUE, TRUE))
                       /\ admin' = AgentSetPortState(admin, port, TRUE)
                       /\ idx' = idx + 1
                       /\ UNCHANGED <<pc, raised, outcome>>
                    \/ /\ calls' = Append(calls, SetPortState(port, TRUE, FALSE))
                       /\ raised' = TRUE
                       /\ outcome' = FbossErrorHandler
                       /\ pc' = "done"
                       /\ UNCHANGED <<admin, idx>>
            ELSE /\ idx' = idx + 1
                 /\ UNCHANGED <<pc, out, calls, raised, admin, outcome>>
    /\ UNCHANGED <<bpsVars, cmd, admin0, ports, status, resp, order,
                   detailVars>>

FlapNext == FlapRun \/ FlapGetPortStatus \/ FlapDisable \/ FlapSleep \/ FlapEnable

SpecFlap == FlapInit /\ [][FlapNext]_vars

\* The positions in the call log of the calls setPortState(., state).
SetPortStateCalls(state) ==
    {i \in DOMAIN calls : calls[i].op = "setPortState" /\ calls[i].state = state}

SleepCalls == {i \in DOMAIN calls : calls[i].op = "sleep"}

\* The ports of the response that the flap acts on.
FlappedPorts == {p \in DOMAIN resp : resp[p].enabled}

\* C1: in a flap every setPortState(port, False) is issued before the pause
\* and every setPortState(port, True) after it, and when a port is re-enabled
\* every flapped port has already had its disable call, whatever the
\* iteration order of the status response.
FlapDisablesAllBeforeEnabling ==
    cmd = "flap" =>
        /\ \A i \in SetPortStateCalls(FALSE) : \A s \in SleepCalls : i < s
        /\ \A j \in SetPortStateCalls(TRUE) : \E s \in SleepCalls : s < j
        /\ \A j \in SetPortStateCalls(TRUE) : \A p \in FlappedPorts :
               \E i \in SetPortStateCalls(FALSE) : i < j /\ calls[i].port = p

\* The calls setPortState(port, True) issued after position i of the call log.
EnablesAfter(i, port) ==
    {j \in SetPortStateCalls(TRUE) : j > i /\ calls[j].port = port}

\* C14 as stated: a flap never leaves a port administratively disabled: when
\* the command has ended, also after a setPortState call failed partway
\* through either phase, every port that setPortState(port, False) disabled
\* has later been issued setPortState(port, True) exactly once, and every
\* port's administrative state is what it was before the flap.
FlapRestoresAdminState ==
    (cmd = "flap" /\ pc = "done") =>
        /\ \A i \in SetPortStateCalls(FALSE) :
               calls[i].ok => Cardinality(EnablesAfter(i, calls[i].port)) = 1
        /\ admin = admin0

\* A finished flap of two ports, iterated in descending port order, that
\* disabled both and re-enabled both.
FlapTwoPortsDone ==
    /\ cmd = "flap" /\ pc = "done" /\ outcome = "ok"
    /\ Len(order) = 2 /\ order[1] > order[2]
    /\ Cardinality(SetPortStateCalls(FALSE)) = 2
    /\ Cardinality(SetPortStateCalls(TRUE)) = 2

\* The first loop of flap_ports has gone past position k of the response.
FlapPassed(k) == SleepCalls # {} \/ idx > k

\* C2: a flap issues no setPortState call, in either phase, for a port whose
\* status reports it administratively disabled, and prints the notice for it
\* when the first loop passes it.
FlapSkipsDisabledPorts ==
    cmd = "flap" =>
        /\ \A i \in DOMAIN calls :
               calls[i].op = "setPortState" => resp[calls[i].port].enabled
        /\ \A k \in DOMAIN order :
               (~resp[order[k]].enabled /\ FlapPassed(k)) =>
                   \E n \in DOMAIN out :
                       out[n] = [kind |-> "cannot flap", port |-> order[k]]

\* A finished flap of a disabled port and an enabled one: the enabled port
\* was disabled and re-enabled, the disabled one got its notice.
FlapMixedDone ==
    /\ cmd = "flap" /\ pc = "done" /\ outcome = "ok"
    /\ \E p, q \in DOMAIN resp : ~resp[p].enabled /\ resp[q].enabled
    /\ Len(calls) = 3
    /\ \E n \in DOMAIN out : out[n].kind = "cannot flap"

(* ----------------------------- set-status ----------------------------- *)

\* PortSetStatusCmd.run(ports, status)
SetStatusInit ==
    /\ cmd = "set-status"
    /\ pc = "set_status"
    /\ outcome = "running"
    /\ out = <<>>
    /\ calls = <<>>
    /\ raised = FALSE
    /\ admin \in [Ports -> BOOLEAN]
    /\ admin0 = admin
    /\ ports \in PortLists
    /\ status \in BOOLEAN
    /\ resp = <<>>
    /\ order = <<>>
    /\ idx = 1
    /\ mode = None
    /\ status_resp = <<>>
    /\ port_speeds = <<>>
    /\ t_to_p = <<>>
    /\ transceiver = <<>>
    /\ channels = <<>>
    /\ qsfp_resp = NotFetched
    /\ info_resp = <<>>
    /\ printed = <<>>
    /\ rendered = <<>>
    /\ bps = NoBps
    /\ converted = NotConverted

\* A set_status that leaves administratively disabled ports alone.
SetStatusSkipsDisabled(port) == ~admin[port]

\* Whether set_status leaves a requested port alone: the loop has no such test.
SetStatusSkips(port) == FALSE

\* One iteration of "for port in ports" of set_status, and the loop's exit.
SetStatusStep ==
    /\ cmd = "set-status" /\ pc = "set_status"
    /\ IF idx > Len(ports)
       THEN /\ pc' = "done"
            /\ outcome' = "ok"
            /\ UNCHANGED <<out, calls, raised, admin, idx>>
       ELSE LET port == ports[idx] IN
            IF SetStatusSkips(port)
            THEN /\ out' = Append(out, [kind |-> "skip", port |-> port])
                 /\ idx' = idx + 1
                 /\ UNCHANGED <<pc, calls, raised, admin, outcome>>
            ELSE /\ out' = Append(out, [kind |-> IF status THEN "Enabling"
                                                 ELSE "Disabling",
                                        port |-> port])
                 /\ \/ /\ calls' = Append(calls, SetPortState(port, status, TRUE))
                       /\ admin' = AgentSetPortState(admin, port, status)
                       /\ idx' = idx + 1
                       /\ UNCHANGED <<pc, raised, outcome>>
                    \/ /\ calls' = Append(calls, SetPortState(port, status, FALSE))
                       /\ raised' = TRUE
                       /\ outcome' = FbossErrorHandler
                       /\ pc' = "done"
                       /\ UNCHANGED <<admin, idx>>
    /\ UNCHANGED <<bpsVars, cmd, admin0, ports, status, resp, order,
                   detailVars>>

SetStatusNext == SetStatusStep

SpecSetStatus == SetStatusInit /\ [][SetStatusNext]_vars

\* C3 as stated: set-status issues no setPortState call for a requested port
\* that is administratively disabled when the command begins.
SetStatusSkipsDisabledPorts ==
    cmd = "set-status" =>
        \A i \in DOMAIN calls : admin0[calls[i].port]

\* C3: set-status prints one line and issues one setPortState(port, status)
\* call for every requested port, in the order of the request, whatever the
\* port's administrative state; no port is skipped.
SetStatusCallsEveryPort ==
    cmd = "set-status" =>
        /\ Len(calls) = (idx - 1) + (IF raised THEN 1 ELSE 0)
        /\ Len(out) = Len(calls)
        /\ \A i \in DOMAIN calls :
               /\ calls[i].port = ports[i] /\ calls[i].state = status
               /\ out[i].port = ports[i] /\ out[i].kind # "skip"
        /\ outcome = "ok" => Len(calls) = Len(ports)

\* A finished set-status whose request held an administratively disabled
\* port: the call for it was issued.
SetStatusDisabledPortDone ==
    /\ cmd = "set-status" /\ pc = "done" /\ outcome = "ok"
    /\ \E i \in DOMAIN ports :
           ~admin0[ports[i]] /\ calls[i] = SetPortState(ports[i], status, TRUE)

(* ------------------------ detailed status report ---------------------- *)

\* The largest transceiver id.
MaxTransceiver == 1

TransceiverIds == 0..MaxTransceiver

\* The channels at which a port of the detailed report can start.
StartChannels == {0, 1}

\* ch_to_port.get(channel.channel, None) when the channel has no entry.
NoPort == -1

\* speedMbps values of the detailed report: a one-channel speed and the two
\* speeds _get_port_channels tests for.
Speeds == {10000, 20000, 40000}

\* The explicit channel lists a status response of the detailed report can
\* carry.
ExplicitChannels == {<<0>>, <<0, 1>>, <<1, 0>>}

\* The per-channel readings a TransceiverInfo can carry (channel indices).
InfoChannels == {<<>>, <<0, 1>>}

\* A TransceiverIdxThrift.
TransceiverIdx(tid, start, chans) ==
    [transceiverId |-> tid, channelId |-> start, channels |-> chans]

\* An optional field is the empty list when it is None, else a one-element
\* list holding its value.
Some(x) == <<x>>

\* What the agent can report of one port: its transceiverIdx (None, with an
\* explicit channel list, or with a starting channel only) and its speed.
PortCases ==
    {[transceiverIdx |-> <<>>, speed |-> 10000]}
    \cup {[transceiverIdx |-> Some(TransceiverIdx(t, c[1], c)),
           speed |-> 10000 * Len(c)] :
             t \in TransceiverIds, c \in ExplicitChannels}
    \cup {[transceiverIdx |-> Some(TransceiverIdx(t, s, <<>>)), speed |-> v] :
             t \in TransceiverIds, s \in StartChannels, v \in Speeds}

\* A PortStatus of the detailed report.  enabled and up only reach
\* utils.get_status_strs, which formats them; no branch of the report reads
\* them.
DetailPortStatus(xcvr) ==
    [enabled |-> TRUE, up |-> TRUE, transceiverIdx |-> xcvr]

\* sorted(S), for a set of numbers.
RECURSIVE Sorted(_)
Sorted(S) ==
    IF S = {} THEN <<>>
    ELSE LET m == CHOOSE x \in S : \A y \in S : x <= y
         IN  <<m>> \o Sorted(S \ {m})

\* The ports in the opposite of ascending order.
UnsortedPorts ==
    LET s == Sorted(DOMAIN status_resp)
    IN  [i \in DOMAIN s |-> s[Len(s) + 1 - i]]

\* sorted(self._status_resp.items()): the ports in ascending order.
SortedPorts == Sorted(DOMAIN status_resp)

\* A dict is the list of its [key, val] items in insertion order.
DictHas(d, k) == \E i \in DOMAIN d : d[i].key = k

DictGet(d, k, default) ==
    IF DictHas(d, k)
    THEN d[CHOOSE i \in DOMAIN d : d[i].key = k].val
    ELSE default

\* d[k] = v: a present key keeps its place, a new key goes last.
DictSet(d, k, v) ==
    IF DictHas(d, k)
    THEN [i \in DOMAIN d |-> IF d[i].key = k THEN [key |-> k, val |-> v] ELSE d[i]]
    ELSE Append(d, [key |-> k, val |-> v])

\* d.values()
DictValues(d) == [i \in DOMAIN d |-> d[i].val]

\* range(a, b) as a list.
PyRange(a, b) == [i \in 1..(b - a) |-> a + i - 1]

\* _get_port_channels with range(start, start + 2) for every multi-lane speed.
GetPortChannelsTwoLanes(port, xcvr_info) ==
    LET start_channel == xcvr_info.channelId
        speed == port_speeds[port]
    IN  IF speed \in {20000, 40000}
        THEN PyRange(start_channel, start_channel + 2)
        ELSE <<start_channel>>

\* _get_port_channels(port, xcvr_info)
GetPortChannels(port, xcvr_info) ==
    LET start_channel == xcvr_info.channelId
        speed == port_speeds[port]
    IN  IF speed = 20000 THEN PyRange(start_channel, start_channel + 2)
        ELSE IF speed = 40000 THEN PyRange(start_channel, start_channel + 4)
        ELSE <<start_channel>>

\* The local variable channels of _get_channel_detail(port, status).
Channels(port, st) ==
    LET xcvr == st.transceiverIdx[1]
    IN  IF xcvr.channels = <<>>
        THEN GetPortChannels(port, xcvr)
        ELSE xcvr.channels

\* for ch in channels: self._t_to_p[tid][ch] = port
RECURSIVE SetChannels(_, _, _, _)
SetChannels(d, chs, i, port) ==
    IF i > Len(chs) THEN d
    ELSE SetChannels(DictSet(d, chs[i], port), chs, i + 1, port)

\* _get_channel_detail(port, status) applied to g: self._t_to_p,
\* self._transceiver and the local channels.
GetChannelDetail(g, port, st) ==
    LET tid == st.transceiverIdx[1].transceiverId
    IN  [t_to_p |-> [g.t_to_p EXCEPT
                        ![tid] = SetChannels(@, Channels(port, st), 1, port)],
         channels |-> Channels(port, st),
         transceiver |-> IF tid \in Range(g.transceiver)
                         THEN g.transceiver
                         ELSE Append(g.transceiver, tid)]

\* The first loop of get_detail_status from position i of the sorted ports.
RECURSIVE GroupPorts(_, _, _)
GroupPorts(g, sorted, i) ==
    IF i > Len(sorted) THEN g
    ELSE LET port == sorted[i]
             st == status_resp[port]
         IN  GroupPorts(IF st.transceiverIdx # <<>>
                        THEN GetChannelDetail(g, port, st)
                        ELSE g,
                        sorted, i + 1)

\* A TransceiverInfo: presence, the id it reports, its channel readings.
TransceiverInfo(present, port, chans) ==
    [present |-> present, port |-> port, channels |-> chans]

\* What the qsfp service can hold of transceiver t.
TransceiverInfos(t) ==
    {TransceiverInfo(FALSE, t, <<>>)}
    \cup {TransceiverInfo(TRUE, t, c) : c \in InfoChannels}

\* What getTransceiverInfo(ids) can return: a record for some of the ids.
InfoResponses(ids) ==
    UNION {{r \in [S -> UNION {TransceiverInfos(t) : t \in S}] :
               \A t \in S : r[t].port = t} : S \in SUBSET ids}

\* m[k] = v on a dict whose order is never read.
MapSet(m, k, v) == [x \in DOMAIN m \cup {k} |-> IF x = k THEN v ELSE m[x]]

\* _get_dummy_status that stores the placeholder under the transceiver id.
DummyKeyTid(port, tid) == tid

\* The key under which _get_dummy_status stores the placeholder it makes for
\* the port: self._info_resp[port] = info.
DummyKey(port, tid) == port

\* _get_dummy_status from position i of the sorted ports, on the dict info.
RECURSIVE GetDummyStatus(_, _, _)
GetDummyStatus(info, sorted, i) ==
    IF i > Len(sorted) THEN info
    ELSE LET port == sorted[i]
             st == status_resp[port]
         IN  IF st.transceiverIdx # <<>>
                /\ st.transceiverIdx[1].transceiverId \notin DOMAIN info
             THEN GetDummyStatus(
                      MapSet(info,
                             DummyKey(port, st.transceiverIdx[1].transceiverId),
                             TransceiverInfo(FALSE, port, <<>>)),
                      sorted, i + 1)
             ELSE GetDummyStatus(info, sorted, i + 1)

\* A printed line.
PortLine(port, present) ==
    [kind |-> "Port", port |-> port, channel |-> NoPort, present |-> present]

TransceiverLine(id) ==
    [kind |-> "Transceiver", port |-> id, channel |-> NoPort, present |-> "True"]

ChannelLine(channel, port) ==
    [kind |-> "Channel", port |-> port, channel |-> channel, present |-> "None"]

\* The is_present argument of utils.get_status_strs.
IsPresent(b) == IF b THEN "True" ELSE "False"

\* _print_transceiver_ports(ch_to_port, info): a line per value of the dict.
PrintTransceiverPorts(ch_to_port, info) ==
    [i \in DOMAIN ch_to_port |->
        PortLine(ch_to_port[i].val, IsPresent(info.present))]

\* "if port:" on the result of ch_to_port.get(channel.channel, None)
Truthy(port) == port # NoPort /\ port # 0

\* The loop "for channel in info.channels" of _print_transceiver_details.
PrintChannels(ch_to_port, info) ==
    [i \in DOMAIN info.channels |->
        LET port == DictGet(ch_to_port, info.channels[i], NoPort)
        IN  IF Truthy(port)
            THEN ChannelLine(info.channels[i], port)
            ELSE ChannelLine(info.channels[i], NoPort)]

\* _print_transceiver_details(tid): whether self._info_resp[tid] raises
\* KeyError, and the lines printed if it does not.
PrintTransceiverDetails(tid) ==
    IF tid \notin DOMAIN info_resp
    THEN [failed |-> TRUE, lines |-> <<>>]
    ELSE LET info == info_resp[tid]
             ch_to_port == t_to_p[tid]
         IN  IF info.present = FALSE
             THEN [failed |-> FALSE,
                   lines |-> PrintTransceiverPorts(ch_to_port, info)]
             ELSE [failed |-> FALSE,
                   lines |-> <<TransceiverLine(info.port)>>
                             \o PrintChannels(ch_to_port, info)
                             \o (IF info.channels = <<>>
                                 THEN PrintTransceiverPorts(ch_to_port, info)
                                 ELSE <<>>)]


\* The largest port id of a detailed report.
MaxDetailPort == 1

DetailPorts == 0..MaxDetailPort

\* PortStatusCmd.run with detail or verbose, about to construct
\* PortStatusDetailCmd(self._client, ports, self._qsfp_client, verbose).
DetailInit ==
    /\ cmd = "status"
    /\ pc = "construct"
    /\ mode = "detail"
    /\ outcome = "running"
    /\ out = <<>>
    /\ calls = <<>>
    /\ raised = FALSE
    /\ idx = 0
    /\ admin = <<>>
    /\ admin0 = <<>>
    /\ ports \in {Sorted(S) : S \in SUBSET DetailPorts}
    /\ status = None
    /\ resp = <<>>
    /\ order = <<>>
    /\ status_resp = <<>>
    /\ port_speeds = <<>>
    /\ t_to_p = <<>>
    /\ transceiver = <<>>
    /\ channels = <<>>
    /\ qsfp_resp = NotFetched
    /\ info_resp = <<>>
    /\ printed = <<>>
    /\ rendered = <<>>
    /\ bps = NoBps
    /\ converted = NotConverted

\* getPortStatus(ports) answers for the ports asked for, for all when none is.
Requested == IF ports = <<>> THEN DetailPorts ELSE Range(ports)

\* __init__: getAllPortInfo gives the speeds, getPortStatus the statuses;
\* either call may raise, and PortStatusCmd.run has no handler.
DetailConstruct ==
    /\ cmd = "status" /\ pc = "construct"
    /\ \/ /\ \E f \in [Requested -> PortCases] :
                /\ status_resp' =
                       [p \in Requested |-> DetailPortStatus(f[p].transceiverIdx)]
                /\ port_speeds' =
                       [p \in DetailPorts |->
                           IF p \in Requested THEN f[p].speed ELSE 10000]
          /\ t_to_p' = [t \in TransceiverIds |-> <<>>]
          /\ transceiver' = <<>>
          /\ pc' = "group"
          /\ UNCHANGED <<outcome, raised>>
       \/ /\ raised' = TRUE
          /\ outcome' = "FbossBaseError"
          /\ pc' = "done"
          /\ UNCHANGED <<status_resp, port_speeds, t_to_p, transceiver>>
    /\ UNCHANGED <<bpsVars, cmd, out, calls, idx, flapVars, mode, channels, qsfp_resp,
                   info_resp, printed, rendered>>

\* get_detail_status: the grouping loop, then "if not self._transceiver: return".
DetailGroup ==
    /\ cmd = "status" /\ pc = "group"
    /\ LET g == GroupPorts([t_to_p |-> t_to_p, transceiver |-> transceiver,
                            channels |-> channels],
                           SortedPorts, 1)
       IN  /\ t_to_p' = g.t_to_p
           /\ transceiver' = g.transceiver
           /\ channels' = g.channels
           /\ IF g.transceiver = <<>>
              THEN pc' = "done" /\ outcome' = "ok"
              ELSE pc' = "getTransceiverInfo" /\ UNCHANGED outcome
    /\ UNCHANGED <<bpsVars, cmd, out, calls, raised, idx, flapVars, mode, status_resp,
                   port_speeds, qsfp_resp, info_resp, printed, rendered>>

\* What get_detail_status does when getTransceiverInfo raises
\* TApplicationException: "return".
OnUnsupported == [pc |-> "done", outcome |-> "ok"]

\* get_detail_status: getTransceiverInfo(self._transceiver), which may raise
\* TApplicationException or FbossBaseError, then _get_dummy_status().
DetailFetch ==
    /\ cmd = "status" /\ pc = "getTransceiverInfo"
    /\ calls' = Append(calls, [op |-> "getTransceiverInfo", port |-> None,
                               state |-> None, ok |-> TRUE])
    /\ \/ /\ \E r \in InfoResponses(Range(transceiver)) :
                /\ qsfp_resp' = QsfpResult("none", r)
                /\ info_resp' = GetDummyStatus(r, SortedPorts, 1)
          /\ idx' = 1
          /\ pc' = "print"
          /\ UNCHANGED <<outcome, raised>>
       \/ /\ qsfp_resp' = QsfpResult("TApplicationException", <<>>)
          /\ pc' = OnUnsupported.pc
          /\ outcome' = OnUnsupported.outcome
          /\ UNCHANGED <<info_resp, idx, raised>>
       \/ /\ qsfp_resp' = QsfpResult("FbossBaseError", <<>>)
          /\ raised' = TRUE
          /\ outcome' = "FbossBaseError"
          /\ pc' = "done"
          /\ UNCHANGED <<info_resp, idx>>
    /\ UNCHANGED <<bpsVars, cmd, out, flapVars, mode, status_resp, port_speeds,
                   t_to_p, transceiver, channels, printed, rendered>>

\* One iteration of the loop of _print_port_detail, and the loop's exit.
\* A port without a transceiver reads self._info_resp[status.transceiverIdx],
\* that is self._info_resp[None], which raises KeyError.
DetailPrintPort ==
    /\ cmd = "status" /\ pc = "print"
    /\ IF idx > Len(SortedPorts)
       THEN /\ pc' = "done"
            /\ outcome' = "ok"
            /\ UNCHANGED <<out, idx, printed, rendered>>
       ELSE LET port == SortedPorts[idx]
                st == status_resp[port]
            IN  IF st.transceiverIdx # <<>>
                THEN LET tid == st.transceiverIdx[1].transceiverId
                         r == PrintTransceiverDetails(tid)
                     IN  IF tid \in Range(printed)
                         THEN /\ printed' = Append(printed, tid)
                              /\ idx' = idx + 1
                              /\ UNCHANGED <<pc, outcome, out, rendered>>
                         ELSE IF r.failed
                         THEN /\ pc' = "done"
                              /\ outcome' = "KeyError"
                              /\ UNCHANGED <<out, idx, printed, rendered>>
                         ELSE /\ out' = out \o r.lines
                              /\ rendered' = Append(rendered, tid)
                              /\ printed' = Append(printed, tid)
                              /\ idx' = idx + 1
                              /\ UNCHANGED <<pc, outcome>>
                ELSE /\ pc' = "done"
                     /\ outcome' = "KeyError"
                     /\ UNCHANGED <<out, idx, printed, rendered>>
    /\ UNCHANGED <<bpsVars, cmd, calls, raised, flapVars, mode, status_resp,
                   port_speeds, t_to_p, transceiver, channels, qsfp_resp,
                   info_resp>>

DetailNext == DetailConstruct \/ DetailGroup \/ DetailFetch \/ DetailPrintPort

SpecDetail == DetailInit /\ [][DetailNext]_vars


\* The ports of the response that refer to transceiver tid.
PortsOn(tid) ==
    {p \in DOMAIN status_resp :
        /\ status_resp[p].transceiverIdx # <<>>
        /\ status_resp[p].transceiverIdx[1].transceiverId = tid}

\* The ports the channel map lists under transceiver tid.
PortsServed(tid) == Range(DictValues(t_to_p[tid]))

\* The printed "Port:" lines of port p.
PortLines(p) == {i \in DOMAIN out : out[i].kind = "Port" /\ out[i].port = p}

\* The grouping loop of get_detail_status has run.
Grouped == cmd = "status" /\ status_resp # <<>> /\ pc # "group"

\* getTransceiverInfo has answered and _get_dummy_status has run.
Fetched == cmd = "status" /\ qsfp_resp.exc = "none"

\* C4 as stated: when getTransceiverInfo raises TApplicationException the
\* report still prints one basic status line for every port of the status
\* response.
UnsupportedStillListsPorts ==
    (cmd = "status" /\ pc = "done"
        /\ qsfp_resp.exc = "TApplicationException") =>
        \A p \in DOMAIN status_resp : Cardinality(PortLines(p)) = 1

\* C5 as stated: every transceiver id the ports refer to that has no record
\* in the telemetry response gets a placeholder with present = False under
\* that id, and its rendering completes and prints one line, with presence
\* absent, for each port it serves.
EmptyCageGetsPlaceholder ==
    Fetched =>
        \A tid \in Range(transceiver) :
            tid \notin DOMAIN qsfp_resp.info =>
                /\ tid \in DOMAIN info_resp
                /\ info_resp[tid].present = FALSE
                /\ tid \in Range(rendered) =>
                       \A p \in PortsServed(tid) :
                           /\ Cardinality(PortLines(p)) = 1
                           /\ \A i \in PortLines(p) : out[i].present = "False"
                /\ (pc = "done" /\ \A p \in DOMAIN status_resp :
                                      status_resp[p].transceiverIdx # <<>>) =>
                       tid \in Range(rendered)

\* C7 as stated: after the grouping step every port with a transceiver
\* reference appears under exactly one transceiver id, each channel a port
\* occupies maps to that port, and the list of observed transceiver ids
\* holds each id once.
ChannelMapOwnsOccupiedChannels ==
    Grouped =>
        /\ \A p \in DOMAIN status_resp :
               status_resp[p].transceiverIdx # <<>> =>
                   LET tid == status_resp[p].transceiverIdx[1].transceiverId
                   IN  /\ \A t \in TransceiverIds :
                              p \in PortsServed(t) <=> t = tid
                       /\ \A ch \in Range(Channels(p, status_resp[p])) :
                              DictGet(t_to_p[tid], ch, NoPort) = p
        /\ \A i, j \in DOMAIN transceiver :
               i # j => transceiver[i] # transceiver[j]

\* The ports of the printed "Port:" lines, in the order of the output.
RECURSIVE PortsPrinted(_)
PortsPrinted(i) ==
    IF i > Len(out) THEN <<>>
    ELSE (IF out[i].kind = "Port" THEN <<out[i].port>> ELSE <<>>)
         \o PortsPrinted(i + 1)

LowestPortOn(tid) == CHOOSE p \in PortsOn(tid) : \A q \in PortsOn(tid) : p <= q

NoReadingsOneLinePerPort ==
    Fetched =>
        \A tid \in Range(rendered) :
            (info_resp[tid].present /\ info_resp[tid].channels = <<>>) =>
                \A p \in PortsServed(tid) : Cardinality(PortLines(p)) = 1

\* The printed "Channel:" lines of channel ch that are joined to port p
\* (p = NoPort: the lines that show the channel index alone).
ChannelLines(ch, p) == {i \in DOMAIN out : out[i] = ChannelLine(ch, p)}

\* The rendered transceivers that are present, have a reading for channel
\* ch, and whose channel map has no owning port for it.
UnownedReadings(ch) ==
    {tid \in Range(rendered) :
        /\ info_resp[tid].present
        /\ ch \in Range(info_resp[tid].channels)
        /\ ~DictHas(t_to_p[tid], ch)}

\* C11 as stated: when a present transceiver is rendered, every channel of
\* its telemetry that has an owning port in the channel map is printed
\* joined to that port, for every port id including 0, and only the channels
\* without an owning port are printed with the channel index alone.
ChannelsJoinedToOwningPort ==
    Fetched =>
        /\ \A tid \in Range(rendered) :
               info_resp[tid].present =>
                   \A ch \in Range(info_resp[tid].channels) :
                       DictHas(t_to_p[tid], ch) =>
                           ChannelLines(ch, DictGet(t_to_p[tid], ch, NoPort)) # {}
        /\ \A ch \in StartChannels :
               Cardinality(ChannelLines(ch, NoPort))
                   = Cardinality(UnownedReadings(ch))

\* The ports of the response that have no mapping to a transceiver.
Unmapped ==
    {p \in DOMAIN status_resp : status_resp[p].transceiverIdx = <<>>}

\* C13 as stated: a port without a transceiver mapping is still printed, with
\* one status line, and the rendering goes on to the end, both when some
\* other port has a transceiver and when no port has one (no remote call
\* having failed, and every transceiver having a telemetry record).
UnmappedPortsStillPrinted ==
    (/\ cmd = "status" /\ pc = "done"
     /\ status_resp # <<>>
     /\ ~raised
     /\ qsfp_resp.exc # "TApplicationException"
     /\ \A tid \in Range(transceiver) : tid \in DOMAIN info_resp) =>
        /\ Unmapped # {} => outcome = "ok"
        /\ \A p \in Unmapped : Cardinality(PortLines(p)) = 1

(* ------------------------------ details ------------------------------- *)

\* PortDetailsCmd.run(ports)
DetailsInit ==
    /\ cmd = "details"
    /\ pc = "run"
    /\ outcome = "running"
    /\ out = <<>>
    /\ calls = <<>>
    /\ raised = FALSE
    /\ idx = 1
    /\ admin \in [Ports -> BOOLEAN]
    /\ admin0 = admin
    /\ ports \in PortLists
    /\ status = None
    /\ resp = <<>>
    /\ order = <<>>
    /\ mode = None
    /\ status_resp = <<>>
    /\ port_speeds = <<>>
    /\ t_to_p = <<>>
    /\ transceiver = <<>>
    /\ channels = <<>>
    /\ qsfp_resp = NotFetched
    /\ info_resp = <<>>
    /\ printed = <<>>
    /\ rendered = <<>>
    /\ bps = NoBps
    /\ converted = NotConverted

\* A PortInfoThrift of the agent: adminState is the agent's state of the port.
PortInfos(port) ==
    {[portId |-> port, adminState |-> admin[port], operState |-> o] :
        o \in IF admin[port] THEN {0, 1} ELSE {0}}

\* What getAllPortInfo() can return: the info of every port of the switch.
AllPortInfos(S) ==
    {r \in [S -> UNION {PortInfos(p) : p \in S}] : \A p \in S : r[p].portId = p}

\* The try block of run: getAllPortInfo() when no port is given; its
\* FbossBaseError reaches the handler of line 30.
DetailsRun ==
    /\ cmd = "details" /\ pc = "run"
    /\ IF ports = <<>>
       THEN \/ /\ \E S \in {{}, Ports} : resp' \in AllPortInfos(S)
               /\ pc' = "print_all"
               /\ UNCHANGED <<outcome, raised>>
            \/ /\ raised' = TRUE
               /\ outcome' = FbossErrorHandler
               /\ pc' = "done"
               /\ UNCHANGED resp
       ELSE /\ pc' = "print_ports"
            /\ UNCHANGED <<outcome, raised, resp>>
    /\ UNCHANGED <<bpsVars, cmd, out, calls, idx, admin, admin0, ports, status, order,
                   detailVars>>

\* The lines _print_port_details prints for a port.
DetailsLine(port) == [kind |-> "details", port |-> port]

\* "for port in ports: self._print_port_details(port)": getPortInfo(port) is
\* called outside the try block of run.
DetailsPrintPort ==
    /\ cmd = "details" /\ pc = "print_ports"
    /\ IF idx > Len(ports)
       THEN /\ pc' = "done"
            /\ outcome' = "ok"
            /\ UNCHANGED <<out, raised, idx>>
       ELSE \/ /\ out' = Append(out, DetailsLine(ports[idx]))
               /\ idx' = idx + 1
               /\ UNCHANGED <<pc, outcome, raised>>
            \/ /\ raised' = TRUE
               /\ outcome' = "FbossBaseError"
               /\ pc' = "done"
               /\ UNCHANGED <<out, idx>>
    /\ UNCHANGED <<bpsVars, cmd, calls, admin, admin0, ports, status, resp, order,
                   detailVars>>

\* The "elif resp" and "else" branches of run: the ports whose operState is
\* 1, in sorted order, or "No Ports Found".
DetailsPrintAll ==
    /\ cmd = "details" /\ pc = "print_all"
    /\ IF DOMAIN resp # {}
       THEN LET all_ports == Sorted({p \in DOMAIN resp : resp[p].operState = 1})
            IN  out' = out \o [i \in DOMAIN all_ports |-> DetailsLine(all_ports[i])]
       ELSE out' = Append(out, [kind |-> "No Ports Found", port |-> NoPort])
    /\ pc' = "done"
    /\ outcome' = "ok"
    /\ UNCHANGED <<bpsVars, cmd, calls, raised, idx, flapVars, detailVars>>

DetailsNext == DetailsRun \/ DetailsPrintPort \/ DetailsPrintAll

(* ------------------------------- stats -------------------------------- *)

\* PortStatsCmd.run(details, ports)
StatsInit ==
    /\ cmd = "stats"
    /\ pc = "getStats"
    /\ outcome = "running"
    /\ out = <<>>
    /\ calls = <<>>
    /\ raised = FALSE
    /\ idx = 1
    /\ admin \in [Ports -> BOOLEAN]
    /\ admin0 = admin
    /\ ports \in PortLists
    /\ status = None
    /\ resp = <<>>
    /\ order = <<>>
    /\ mode = None
    /\ status_resp = <<>>
    /\ port_speeds = <<>>
    /\ t_to_p = <<>>
    /\ transceiver = <<>>
    /\ channels = <<>>
    /\ qsfp_resp = NotFetched
    /\ info_resp = <<>>
    /\ printed = <<>>
    /\ rendered = <<>>
    /\ bps = NoBps
    /\ converted = NotConverted

\* show_stats: getAllPortStats(), or one getPortStats(port) of the loop; all
\* of show_stats runs inside the try block of run.
StatsGetStats ==
    /\ cmd = "stats" /\ pc = "getStats"
    /\ \/ /\ ports = <<>>
          /\ resp' = [p \in Ports |-> [name |-> p]]
          /\ pc' = "getLldpNeighbors"
          /\ UNCHANGED <<outcome, raised, idx>>
       \/ /\ ports # <<>> /\ idx <= Len(ports)
          /\ resp' = MapSet(resp, ports[idx], [name |-> ports[idx]])
          /\ idx' = idx + 1
          /\ UNCHANGED <<pc, outcome, raised>>
       \/ /\ ports # <<>> /\ idx > Len(ports)
          /\ pc' = "getLldpNeighbors"
          /\ UNCHANGED <<resp, outcome, raised, idx>>
       \/ /\ ports = <<>> \/ idx <= Len(ports)
          /\ raised' = TRUE
          /\ outcome' = FbossErrorHandler
          /\ pc' = "done"
          /\ UNCHANGED <<resp, idx>>
    /\ UNCHANGED <<bpsVars, cmd, out, calls, admin, admin0, ports, status, order,
                   detailVars>>

\* show_stats: getLldpNeighbors(), then the header and a line per port.
StatsGetLldpNeighbors ==
    /\ cmd = "stats" /\ pc = "getLldpNeighbors"
    /\ \/ /\ LET ps == Sorted(DOMAIN resp)
             IN  out' = <<[kind |-> "Port Name", port |-> NoPort]>>
                        \o [i \in DOMAIN ps |-> [kind |-> "stats", port |-> ps[i]]]
          /\ pc' = "done"
          /\ outcome' = "ok"
          /\ UNCHANGED raised
       \/ /\ raised' = TRUE
          /\ outcome' = FbossErrorHandler
          /\ pc' = "done"
          /\ UNCHANGED out
    /\ UNCHANGED <<bpsVars, cmd, calls, idx, flapVars, detailVars>>

StatsNext == StatsGetStats \/ StatsGetLldpNeighbors

(* ------------------------------- status ------------------------------- *)

\* PortStatusCmd.run(detail, ports, verbose, internal): mode is "detail" when
\* detail or verbose is given, else "internal" or "plain".
StatusInit ==
    /\ cmd = "status"
    /\ pc = "run"
    /\ mode \in {"detail", "internal", "plain"}
    /\ outcome = "running"
    /\ out = <<>>
    /\ calls = <<>>
    /\ raised = FALSE
    /\ idx = 0
    /\ IF mode = "detail"
       THEN /\ admin = <<>>
            /\ ports \in {Sorted(S) : S \in SUBSET DetailPorts}
       ELSE /\ admin \in [Ports -> BOOLEAN]
            /\ ports \in PortLists
    /\ admin0 = admin
    /\ status = None
    /\ resp = <<>>
    /\ order = <<>>
    /\ status_resp = <<>>
    /\ port_speeds = <<>>
    /\ t_to_p = <<>>
    /\ transceiver = <<>>
    /\ channels = <<>>
    /\ qsfp_resp = NotFetched
    /\ info_resp = <<>>
    /\ printed = <<>>
    /\ rendered = <<>>
    /\ bps = NoBps
    /\ converted = NotConverted

\* run: the clients are created and the branch is taken; no try block.
StatusRun ==
    /\ cmd = "status" /\ pc = "run"
    /\ pc' = IF mode = "detail" THEN "construct" ELSE "list_ports"
    /\ UNCHANGED <<bpsVars, cmd, outcome, out, calls, raised, idx, flapVars, detailVars>>

\* list_ports: the header, then getPortStatus(ports), which may raise.
ListGetPortStatus ==
    /\ cmd = "status" /\ pc = "list_ports"
    /\ \/ /\ resp' \in StatusResponses(IF ports = <<>> THEN Ports
                                       ELSE Range(ports))
          /\ out' = Append(out, [kind |-> "header", port |-> NoPort])
          /\ pc' = "getAllPortInfo"
          /\ UNCHANGED <<outcome, raised>>
       \/ /\ out' = Append(out, [kind |-> "header", port |-> NoPort])
          /\ raised' = TRUE
          /\ outcome' = "FbossBaseError"
          /\ pc' = "done"
          /\ UNCHANGED resp
    /\ UNCHANGED <<bpsVars, cmd, calls, idx, admin, admin0, ports, status, order,
                   detailVars>>

\* The loop of list_ports over the sorted port infos: a port outside the
\* request is passed over, a port without status is reported missing, and a
\* port is listed when internal is given or its status is enabled.
ListLines(infos) ==
    LET ps == Sorted(infos)
        wanted == {p \in infos : ports = <<>> \/ p \in Range(ports)}
        listed == {p \in wanted : p \in DOMAIN resp
                                  /\ (mode = "internal" \/ resp[p].enabled)}
        missing == {p \in wanted : p \notin DOMAIN resp}
        shown == Sorted(listed)
    IN  [i \in DOMAIN shown |-> [kind |-> "status", port |-> shown[i]]]
        \o (IF missing # {}
            THEN <<[kind |-> "Could not get status", port |-> NoPort]>>
            ELSE <<>>)

\* list_ports: getAllPortInfo(), which may raise, then the loop.
ListGetAllPortInfo ==
    /\ cmd = "status" /\ pc = "getAllPortInfo"
    /\ \/ /\ out' = out \o ListLines(Ports)
          /\ pc' = "done"
          /\ outcome' = "ok"
          /\ UNCHANGED raised
       \/ /\ raised' = TRUE
          /\ outcome' = "FbossBaseError"
          /\ pc' = "done"
          /\ UNCHANGED out
    /\ UNCHANGED <<bpsVars, cmd, calls, idx, flapVars, detailVars>>

StatusNext ==
    StatusRun \/ ListGetPortStatus \/ ListGetAllPortInfo \/ DetailNext

SpecStatus == StatusInit /\ [][StatusNext]_vars

(* ---------------------------- all commands ---------------------------- *)

Init == FlapInit \/ SetStatusInit \/ DetailsInit \/ StatsInit \/ StatusInit

Next == FlapNext \/ SetStatusNext \/ DetailsNext \/ StatsNext \/ StatusNext

Spec == Init /\ [][Next]_vars

\* C8 as stated: a FbossBaseError raised by a remote call of any command is
\* reported to the user as an 'Fboss Error' (SystemExit with that message)
\* and ends the command; it neither propagates unhandled nor is replaced by
\* another exception.
FbossErrorIsReported ==
    raised => (pc = "done" /\ outcome = "SystemExit: Fboss Error")

(* ----------------------- channel-mapping resolver --------------------- *)

\* The largest channel index of the resolver's inputs.
MaxChannel == 3

ChannelIds == 0..MaxChannel

\* speedMbps values: 0 for an absent speed, speeds of one channel, and the
\* two speeds _get_port_channels tests for.
AllSpeeds == {0, 1000, 10000, 20000, 25000, 40000, 100000}

\* The channel lists a status response can carry: none, or up to two
\* different channels in any order.
ChannelLists ==
    {c \in SeqsUpTo(ChannelIds, 2) : \A i, j \in DOMAIN c : i # j => c[i] # c[j]}

\* _get_channel_detail(port, status) about to be called on a fresh
\* PortStatusDetailCmd, for one port with a transceiverIdx.
ChannelsInit ==
    /\ cmd = "status"
    /\ pc = "_get_channel_detail"
    /\ mode = "detail"
    /\ outcome = "running"
    /\ out = <<>>
    /\ calls = <<>>
    /\ raised = FALSE
    /\ idx = 1
    /\ admin = <<>>
    /\ admin0 = <<>>
    /\ \E p \in DetailPorts :
           /\ ports = <<p>>
           /\ \E t \in TransceiverIds, s \in ChannelIds, c \in ChannelLists :
                  status_resp =
                      [q \in {p} |-> DetailPortStatus(Some(TransceiverIdx(t, s, c)))]
           /\ port_speeds \in [{p} -> AllSpeeds]
    /\ status = None
    /\ resp = <<>>
    /\ order = <<>>
    /\ t_to_p = [t \in TransceiverIds |-> <<>>]
    /\ transceiver = <<>>
    /\ channels = <<>>
    /\ qsfp_resp = NotFetched
    /\ info_resp = <<>>
    /\ printed = <<>>
    /\ rendered = <<>>
    /\ bps = NoBps
    /\ converted = NotConverted

\* self._get_channel_detail(port, status)
ChannelDetail ==
    /\ cmd = "status" /\ pc = "_get_channel_detail"
    /\ LET port == ports[idx]
           g == GetChannelDetail([t_to_p |-> t_to_p, transceiver |-> transceiver,
                                  channels |-> channels],
                                 port, status_resp[port])
       IN  /\ t_to_p' = g.t_to_p
           /\ transceiver' = g.transceiver
           /\ channels' = g.channels
    /\ pc' = "done"
    /\ outcome' = "ok"
    /\ UNCHANGED <<bpsVars, cmd, out, calls, raised, idx, flapVars, mode, status_resp,
                   port_speeds, qsfp_resp, info_resp, printed, rendered>>

ChannelsNext == ChannelDetail

SpecChannels == ChannelsInit /\ [][ChannelsNext]_vars

\* The status and the speed of the one port the resolver was called for.
ResolvedIdx == status_resp[ports[1]].transceiverIdx[1]

ResolvedSpeed == port_speeds[ports[1]]

\* The channels the resolver is to give, from the explicit list, the speed
\* and the starting channel s.
ExpectedChannels(explicit, speed, s) ==
    IF explicit # <<>> THEN explicit
    ELSE IF speed = 20000 THEN <<s, s + 1>>
    ELSE IF speed = 40000 THEN <<s, s + 1, s + 2, s + 3>>
    ELSE <<s>>

Ascending(c) == \A i, j \in DOMAIN c : i < j => c[i] < c[j]

MaxExp == 4

Mantissas == {0, 1, 9, 10, 99, 100, 500, 999, 1000, 1001, 9999, 500000, 999999}

\* The non-negative integers given to _convert_bps.
BpsValues ==
    {Bps(m, e) : m \in Mantissas \ {0}, e \in 0..MaxExp} \cup {Bps(0, 0)}

\* for factor, unit in [(1, ''), (3, 'K'), (6, 'M'), (9, 'G')]
Units == << [factor |-> 1, unit |-> ""], [factor |-> 3, unit |-> "K"],
            [factor |-> 6, unit |-> "M"], [factor |-> 9, unit |-> "G"] >>

\* m < 1000^k, for a natural number m and an integer k.
RECURSIVE Below(_, _)
Below(m, k) ==
    IF k <= 0 THEN m = 0
    ELSE IF m < 1000 THEN TRUE
    ELSE Below(m \div 1000, k - 1)

\* `value < 1000` once `value /= 1000` has run n times: b / 1000^n < 1000.
ValueBelow1000(b, n) == Below(b.m, n + 1 - b.e)

\* The loop of _convert_bps from its i-th pair on, and the assertion after it.
RECURSIVE ConvertLoop(_, _)
ConvertLoop(b, i) ==
    IF i > Len(Units) THEN Converted(TRUE, 0, None)
    ELSE IF ValueBelow1000(b, i - 1)
         THEN Converted(FALSE, Units[i].factor, Units[i].unit \o "bps")
         ELSE ConvertLoop(b, i + 1)

\* self._convert_bps(bps)
ConvertBps(b) == ConvertLoop(b, 1)

BpsInit ==
    /\ cmd = "details"
    /\ pc = "_convert_bps"
    /\ mode = None
    /\ outcome = "running"
    /\ out = <<>>
    /\ calls = <<>>
    /\ raised = FALSE
    /\ idx = 1
    /\ admin = <<>>
    /\ admin0 = <<>>
    /\ ports = <<>>
    /\ status = None
    /\ resp = <<>>
    /\ order = <<>>
    /\ status_resp = <<>>
    /\ port_speeds = <<>>
    /\ t_to_p = <<>>
    /\ transceiver = <<>>
    /\ channels = <<>>
    /\ qsfp_resp = NotFetched
    /\ info_resp = <<>>
    /\ printed = <<>>
    /\ rendered = <<>>
    /\ bps \in BpsValues
    /\ converted = NotConverted

\* speed, suffix = self._convert_bps(bps)
ConvertBpsCall ==
    /\ cmd = "details" /\ pc = "_convert_bps"
    /\ converted' = ConvertBps(bps)
    /\ outcome' = IF converted'.failed THEN "AssertionError" ELSE "ok"
    /\ pc' = "done"
    /\ UNCHANGED <<bps, cmd, out, calls, raised, idx, flapVars, detailVars>>

BpsNext == ConvertBpsCall

SpecBps == BpsInit /\ [][BpsNext]_vars

\* The suffixes in the order the conversion is specified to try them.
Suffixes == <<"bps", "Kbps", "Mbps", "Gbps">>

\* C12 as stated: for every non-negative integer bps the conversion returns,
\* without failing, (bps / 1000^k, suffix k) with the suffixes bps, Kbps,
\* Mbps, Gbps and k the first index at which bps / 1000^k is below 1000
\* (999 -> 999 bps, 500000 -> 500 Kbps); no input makes it raise.
ConvertBpsAsSpecified ==
    pc = "done" =>
        /\ ~converted.failed
        /\ \E k \in 0..(Len(Suffixes) - 1) :
               /\ ValueBelow1000(bps, k)
               /\ k > 0 => ~ValueBelow1000(bps, k - 1)
               /\ converted.suffix = Suffixes[k + 1]
               /\ bps.m = 0 \/ converted.exp10 = 3 * k

=============================================================================
